---- MODULE Spec2Model ----
(***************************************************************************)
(* Model of src/src/sketch.js: the Biolab "acid disassociation in          *)
(* equilibrium" sketch.  The sketch owns two counters (numProtons,         *)
(* numAcids), four view elements (slider, pH field, two table cells), two  *)
(* edit handlers, the Reconciler updateNumProtons and four subscribers     *)
(* registered with the particle library.  The beaker (p5.beaker) is an     *)
(* external collaborator: it is modelled as a queue of add/remove requests *)
(* which it performs one particle at a time during p.draw, firing the      *)
(* registered subscribers.                                                 *)
(*                                                                         *)
(* A number held by an element is kept as v hundredths plus e units of     *)
(* 1/10^7 (11.81 is v = 1181, e = 0; 13.9999999 is v = 1400, e = -1).  On  *)
(* the texts used here the double arithmetic of the source gives the same  *)
(* results as the exact rational arithmetic of this module.                *)
(***************************************************************************)
EXTENDS Integers, Sequences, FiniteSets, TLC

VARIABLES
    pc,                 \* lifecycle position of the sketch
    numProtons,         \* module counter, sketch.js:15
    numAcids,           \* module counter, sketch.js:16
    slider,             \* value of the slider element  (#num-protons)
    inputPH,            \* value of the pH text field   (#ph), hundredths
    pNumAcids,          \* table cell  (#num-acids)
    pNumConjugateBases, \* table cell  (#num-conjugate-bases)
    callbacks,          \* subscribers registered with the particle library
    pending,            \* beaker: requests accepted and not yet performed
    protons,            \* beaker: free Proton particles in the container
    bases,              \* beaker: ConjugateBase particles in the container
    acids,              \* beaker: ConjugateBase particles holding a proton
    phase,              \* beaker: position inside a reaction of its step
    out,                \* requests issued by the most recent action
    last,               \* what the most recent action was and what it did
    goal                \* the desired count of the one edit that is followed up

vars == <<pc, numProtons, numAcids, slider, inputPH, pNumAcids,
          pNumConjugateBases, callbacks, pending, protons, bases, acids,
          phase, out, last, goal>>

view  == <<slider, inputPH, pNumAcids, pNumConjugateBases>>
beakerState == <<protons, bases, acids, phase>>

----------------------------------------------------------------------------
(* Program constants *)

numInitialProtons == 10
numConjugateBases == 10
SliderMin == 0
SliderMax == 64

(* Bounds of the model *)

MaxStep    == 2     \* a slider edit moves the slider by at most MaxStep
MaxPending == 2     \* edits are taken while fewer requests are outstanding
PHStep     == 22    \* a pH edit changes the shown pH by 0, 1 or PHStep hundredths
PHBelow    == 30    \* pH entries go down to -PHBelow hundredths
PHHigh     == 1430  \* highest pH entry typed, in hundredths
PHFine     == 1     \* a pH edit may also move the shown pH by up to PHFine/10^7

----------------------------------------------------------------------------
(* Values read from and written to elements *)

NaN      == [nan |-> TRUE,  v |-> 0, e |-> 0]
Num(x)   == [nan |-> FALSE, v |-> x, e |-> 0]
Fine(x, y) == [nan |-> FALSE, v |-> x, e |-> y]
Absent   == [nan |-> TRUE,  v |-> -1, e |-> 0]     \* element not created yet
IsNaN(x) == x.nan

Abs(x) == IF x < 0 THEN -x ELSE x

\* Mutant of parseText: Number(text) in place of parseInt/parseFloat, which
\* makes 0 of the empty text.
parseText_Number(t) == IF t.nan THEN Num(0) ELSE Fine(t.v, t.e)

\* parseInt(text,10) / parseFloat(text) of an element's text: the number the
\* text denotes, or NaN for empty and non-numeric text.
parseText(t) == IF t.nan THEN NaN ELSE Fine(t.v, t.e)

\* Mutant of toFixed2: the digits after the second decimal are cut off.
toFixed2_Trunc(x8) ==
    IF x8 >= 0 THEN x8 \div 8 ELSE -((-x8) \div 8)

\* Number.prototype.toFixed(2) followed by Number(): x is given in eighths of
\* a hundredth; the nearest hundredth, ties away from zero.
toFixed2(x8) ==
    IF x8 >= 0 THEN (x8 + 4) \div 8 ELSE -((-x8 + 4) \div 8)

\* sketch.js:96-97   pH = -7.0*(numProtons-64.0)/32.0, toFixed(2)
\* -7*(n-64)/32 in hundredths is 175*(64-n)/8.
protonsToPH(n) == toFixed2(175 * (64 - n))

\* parseInt(x,10) of a number: truncation toward zero.  x = num/den, den > 0.
truncDiv(num, den) ==
    IF num >= 0 THEN num \div den ELSE -((-num) \div den)

\* First significant digit of num/den, for 0 < num < den.
RECURSIVE leadDigit(_, _)
leadDigit(num, den) ==
    IF num * 10 >= den THEN (num * 10) \div den ELSE leadDigit(num * 10, den)

\* parseInt(x,10) of a number x = num/den, den > 0: x is first turned into
\* text and the text is read up to the first character that is no digit.
\* For 10^-6 <= |x| < 10^21 the text is positional and the result is x
\* truncated toward zero; for 0 < |x| < 10^-6 the text is in exponent
\* notation ("4.57e-7") and the result is the first significant digit of x
\* with the sign of x.
parseIntNumber(num, den) ==
    IF num # 0 /\ Abs(num) <= (den - 1) \div 1000000
      THEN (IF num < 0 THEN -1 ELSE 1) * leadDigit(Abs(num), den)
      ELSE truncDiv(num, den)

\* The number a text denotes, in units of 1/10^7.
PHValue(t) == t.v * 100000 + t.e

\* Mutant of pHToProtons: the result is kept inside the slider's range.
pHToProtons_Clamped(u) ==
    LET x == parseIntNumber(560000000 - 4 * u, 8750000) IN
    IF x < SliderMin THEN SliderMin ELSE IF x > SliderMax THEN SliderMax ELSE x

\* Mutant of pHToProtons: the slope has lost its sign, (32.0/7.0)*newPH+64.0.
pHToProtons_SignSlip(u) == parseIntNumber(560000000 + 4 * u, 8750000)

\* sketch.js:105-106  parseInt((32.0/-7.0)*newPH+64.0,10), newPH = u/10^7:
\* (32/-7)*(u/10^7)+64 = (560000000 - 4u)/8750000.
pHToProtons(u) == parseIntNumber(560000000 - 4 * u, 8750000)

\* HTMLInputElement(type=range).value = v : the element keeps v inside its
\* min..max (createSlider(0,64,...), sketch.js:155).
sliderValue(v) ==
    IF v < SliderMin THEN SliderMin ELSE IF v > SliderMax THEN SliderMax ELSE v

----------------------------------------------------------------------------
(* Requests to the beaker *)

Req(op, kind, n) == [op |-> op, kind |-> kind, n |-> n]

\* Mutant of updateNumProtons: Math.abs is missing in the removal.
updateNumProtons_NoAbs(newNumProtons) ==
    LET deltaProtons == newNumProtons - numProtons IN
    IF deltaProtons > 0 THEN <<Req("add", "Proton", deltaProtons)>>
    ELSE IF deltaProtons < 0 THEN <<Req("remove", "Proton", deltaProtons)>>
    ELSE <<>>

\* Mutant of updateNumProtons: the first test is deltaProtons >= 0.
updateNumProtons_Geq(newNumProtons) ==
    LET deltaProtons == newNumProtons - numProtons IN
    IF deltaProtons >= 0 THEN <<Req("add", "Proton", deltaProtons)>>
    ELSE <<Req("remove", "Proton", Abs(deltaProtons))>>

\* sketch.js:74-82  updateNumProtons: the requests it issues.
updateNumProtons(newNumProtons) ==
    LET deltaProtons == newNumProtons - numProtons IN
    IF deltaProtons > 0 THEN <<Req("add", "Proton", deltaProtons)>>
    ELSE IF deltaProtons < 0 THEN <<Req("remove", "Proton", Abs(deltaProtons))>>
    ELSE <<>>

\* h: the handler or subscriber that ran; c: numProtons when it started;
\* text: the text it read; d: the desired count it computed; called: whether
\* it called updateNumProtons; wrote: the view elements it wrote.
Did(h, c, text, d, called, wrote) ==
    [h |-> h, c |-> c, text |-> text, d |-> d, called |-> called, wrote |-> wrote]

----------------------------------------------------------------------------
Init ==
    /\ pc = "loaded"
    /\ numProtons = 0
    /\ numAcids = 0
    /\ slider = Absent
    /\ inputPH = Absent
    /\ pNumAcids = Absent
    /\ pNumConjugateBases = Absent
    /\ callbacks = {}
    /\ pending = <<>>
    /\ protons = 0
    /\ bases = 0
    /\ acids = 0
    /\ phase = "idle"
    /\ out = <<>>
    /\ last = Did("load", 0, NaN, NaN, FALSE, {})
    /\ goal = NaN

----------------------------------------------------------------------------
(* View updates *)

\* sketch.js:95-98  inputPHUpdate: the value written to the pH field.
inputPHUpdate(n) == Num(protonsToPH(n))

\* Mutant of particleTableUpdate: the conjugate-base cell is given numAcids.
particleTableUpdate_Swapped ==
    /\ pNumAcids' = Num(numAcids')
    /\ pNumConjugateBases' = Num(numAcids')

\* sketch.js:18-21  particleTableUpdate
particleTableUpdate ==
    /\ pNumAcids' = Num(numAcids')
    /\ pNumConjugateBases' = Num(numConjugateBases - numAcids')

\* Mutant of AllCallbacks: release_proton is registered for "post", so nothing
\* runs before the release.
AllCallbacks_ReleasePost ==
    {"Proton.post", "remove.post", "release_proton.post", "reacts_with_proton.post"}

\* sketch.js:115-143  registerUICallbacks: event and phase of each callback
AllCallbacks ==
    {"Proton.post", "remove.post", "release_proton.pre", "reacts_with_proton.post"}

----------------------------------------------------------------------------
(* Subscribers, sketch.js:117-142.  Each is the body of one callback. *)

\* sketch.js:117-122
OnProtonCreated ==
    /\ numProtons' = numProtons + 1
    /\ inputPH' = inputPHUpdate(numProtons')
    /\ slider' = Num(sliderValue(numProtons'))
    /\ UNCHANGED <<numAcids, pNumAcids, pNumConjugateBases>>

\* Mutant of OnProtonRemoved: the counter is not decremented.
OnProtonRemoved_NoCount ==
    /\ numProtons' = numProtons
    /\ inputPH' = inputPHUpdate(numProtons')
    /\ slider' = Num(sliderValue(numProtons'))
    /\ UNCHANGED <<numAcids, pNumAcids, pNumConjugateBases>>

\* sketch.js:123-128
OnProtonRemoved ==
    /\ numProtons' = numProtons - 1
    /\ inputPH' = inputPHUpdate(numProtons')
    /\ slider' = Num(sliderValue(numProtons'))
    /\ UNCHANGED <<numAcids, pNumAcids, pNumConjugateBases>>

\* sketch.js:130-136
OnReleaseProton ==
    /\ numAcids' = numAcids - 1
    /\ particleTableUpdate
    /\ inputPH' = inputPHUpdate(numProtons)
    /\ UNCHANGED <<numProtons, slider>>

\* sketch.js:137-142
OnReactsWithProton ==
    /\ numAcids' = numAcids + 1
    /\ particleTableUpdate
    /\ inputPH' = inputPHUpdate(numProtons)
    /\ UNCHANGED <<numProtons, slider>>

----------------------------------------------------------------------------
(* Lifecycle entry points, sketch.js:169-194 *)

\* sketch.js:172-176  p.preload
Preload ==
    /\ pc = "loaded"
    /\ pc' = "preloaded"
    /\ out' = <<>>
    /\ last' = Did("preload", numProtons, NaN, NaN, FALSE, {})
    /\ UNCHANGED <<numProtons, numAcids, view, callbacks, goal, pending, beakerState>>

\* sketch.js:178-182  p.setup: canvas and beaker
SetupBeaker ==
    /\ pc = "preloaded"
    /\ pc' = "beaker"
    /\ out' = <<>>
    /\ last' = Did("setup", numProtons, NaN, NaN, FALSE, {})
    /\ UNCHANGED <<numProtons, numAcids, view, callbacks, goal, pending, beakerState>>

\* Mutant of UISetup: the "Proton" post callback is not registered.
UISetup_NoProtonCallback ==
    /\ pc = "beaker"
    /\ pc' = "ui"
    /\ pNumConjugateBases' = Num(numConjugateBases)
    /\ pNumAcids' = Num(numAcids)
    /\ slider' = Num(sliderValue(numInitialProtons))
    /\ inputPH' = inputPHUpdate(numProtons)
    /\ callbacks' = AllCallbacks \ {"Proton.post"}
    /\ out' = <<>>
    /\ last' = Did("UISetup", numProtons, NaN, NaN, FALSE,
                   {"slider", "inputPH", "pNumAcids", "pNumConjugateBases"})
    /\ UNCHANGED <<numProtons, numAcids, pending, goal, beakerState>>

\* sketch.js:145-163  UISetup, called from p.setup (sketch.js:184)
UISetup ==
    /\ pc = "beaker"
    /\ pc' = "ui"
    /\ pNumConjugateBases' = Num(numConjugateBases)
    /\ pNumAcids' = Num(numAcids)
    /\ slider' = Num(sliderValue(numInitialProtons))
    /\ inputPH' = inputPHUpdate(numProtons)
    /\ callbacks' = AllCallbacks
    /\ out' = <<>>
    /\ last' = Did("UISetup", numProtons, NaN, NaN, FALSE,
                   {"slider", "inputPH", "pNumAcids", "pNumConjugateBases"})
    /\ UNCHANGED <<numProtons, numAcids, pending, goal, beakerState>>

\* sketch.js:186  beaker.addParticles(ConjugateBase,numConjugateBases)
SetupAddBases ==
    /\ pc = "ui"
    /\ pc' = "bases"
    /\ out' = <<Req("add", "ConjugateBase", numConjugateBases)>>
    /\ pending' = pending \o out'
    /\ last' = Did("setup", numProtons, NaN, NaN, FALSE, {})
    /\ UNCHANGED <<numProtons, numAcids, view, callbacks, goal, beakerState>>

\* sketch.js:187  beaker.addParticles(Proton,numInitialProtons)
SetupAddProtons ==
    /\ pc = "bases"
    /\ pc' = "running"
    /\ out' = <<Req("add", "Proton", numInitialProtons)>>
    /\ pending' = pending \o out'
    /\ last' = Did("setup", numProtons, NaN, NaN, FALSE, {})
    /\ UNCHANGED <<numProtons, numAcids, view, callbacks, goal, beakerState>>

----------------------------------------------------------------------------
(* Edit handlers, sketch.js:84-112.  The element already holds the text   *)
(* the user gave it when the handler runs and reads it with this.value(). *)

\* Texts a slider edit can deliver: a position at most MaxStep away from the
\* proton count, or a text that is no number.
SliderTexts ==
    {Num(x) : x \in {y \in SliderMin..SliderMax : Abs(y - numProtons) <= MaxStep}}
        \cup {NaN}

\* Texts a pH edit can deliver: the pH shown for the current proton count,
\* moved by 0, 1 or PHStep hundredths or by a few 1/10^7, or a text that is
\* no number.
PHTexts ==
    {Num(x) : x \in {protonsToPH(numProtons) + o : o \in {-PHStep, -1, 0, 1, PHStep}}
                       \cap ((-PHBelow)..PHHigh)}
        \cup {Fine(protonsToPH(numProtons), y) : y \in ((-PHFine)..PHFine) \ {0}}
        \cup {NaN}

\* Mutant of inputNumProtonsEvent: the handler also stores the desired count
\* in numProtons.
inputNumProtonsEvent_Writes(t) ==
    LET newNumProtons == parseText(t) IN
    /\ slider' = IF t.nan THEN slider ELSE t
    /\ IF ~IsNaN(newNumProtons)
         THEN /\ out' = updateNumProtons(newNumProtons.v)
              /\ numProtons' = newNumProtons.v
              /\ last' = Did("slider", numProtons, t, newNumProtons, TRUE, {})
         ELSE /\ out' = <<>>
              /\ numProtons' = numProtons
              /\ last' = Did("slider", numProtons, t, NaN, FALSE, {})
    /\ pending' = pending \o out'
    /\ UNCHANGED <<pc, numAcids, inputPH, pNumAcids,
                   pNumConjugateBases, callbacks, beakerState>>

\* sketch.js:86-91  inputNumProtonsEvent
inputNumProtonsEvent(t) ==
    LET newNumProtons == parseText(t) IN
    /\ slider' = IF t.nan THEN slider ELSE t   \* a range input holds numbers only
    /\ IF ~IsNaN(newNumProtons)
         THEN /\ out' = updateNumProtons(newNumProtons.v)
              /\ last' = Did("slider", numProtons, t, newNumProtons, TRUE, {})
         ELSE /\ out' = <<>>
              /\ last' = Did("slider", numProtons, t, NaN, FALSE, {})
    /\ pending' = pending \o out'
    /\ UNCHANGED <<pc, numProtons, numAcids, inputPH, pNumAcids,
                   pNumConjugateBases, callbacks, beakerState>>

\* sketch.js:102-109  inputPHEvent
inputPHEvent(t) ==
    LET newPH == parseText(t) IN
    /\ inputPH' = t
    /\ IF ~IsNaN(newPH)
         THEN LET newNumProtons == pHToProtons(PHValue(newPH)) IN
              /\ out' = updateNumProtons(newNumProtons)
              /\ last' = Did("ph", numProtons, t, Num(newNumProtons), TRUE, {})
         ELSE /\ out' = <<>>
              /\ last' = Did("ph", numProtons, t, NaN, FALSE, {})
    /\ pending' = pending \o out'
    /\ UNCHANGED <<pc, numProtons, numAcids, slider, pNumAcids,
                   pNumConjugateBases, callbacks, beakerState>>

CanEdit == pc = "running" /\ phase = "idle" /\ Len(pending) < MaxPending

EditSlider ==
    /\ CanEdit
    /\ goal = NaN
    /\ \E t \in SliderTexts : inputNumProtonsEvent(t)
    /\ UNCHANGED goal

EditPH ==
    /\ CanEdit
    /\ goal = NaN
    /\ \E t \in PHTexts : inputPHEvent(t)
    /\ UNCHANGED goal

----------------------------------------------------------------------------
(* p.draw, sketch.js:190-193: beaker.step().  In one step the beaker      *)
(* performs one particle of its oldest request, or lets one conjugate     *)
(* base bind or release a proton.  A bound proton leaves the container    *)
(* (its removal is announced) and a released one enters it (its creation  *)
(* is announced).  The subscribers run inside the step.                   *)

Idle == pc = "running" /\ phase = "idle"

HeadIs(op, kind) ==
    /\ pending # <<>>
    /\ Head(pending).op = op
    /\ Head(pending).kind = kind

\* one particle of the oldest request has been performed
HeadDone ==
    IF Head(pending).n > 1
      THEN [pending EXCEPT ![1].n = @ - 1]
      ELSE Tail(pending)

\* a ConjugateBase particle is created; no subscriber listens (sketch.js:130-142
\* register only release_proton and reacts_with_proton on ConjugateBase)
StepAddBase ==
    /\ Idle
    /\ HeadIs("add", "ConjugateBase")
    /\ bases' = bases + 1
    /\ pending' = HeadDone
    /\ out' = <<>>
    /\ last' = Did("base", numProtons, NaN, NaN, FALSE, {})
    /\ UNCHANGED <<pc, numProtons, numAcids, view, callbacks, goal, protons, acids, phase>>

\* Mutant of StepAddProton: the subscriber's write to the pH field fires the
\* field's input handler, which reconciles against the value just written.
StepAddProton_Refire ==
    /\ Idle
    /\ HeadIs("add", "Proton")
    /\ protons' = protons + 1
    /\ IF "Proton.post" \in callbacks
         THEN OnProtonCreated
         ELSE UNCHANGED <<numProtons, numAcids, view>>
    /\ LET delta == pHToProtons(PHValue(inputPH')) - numProtons' IN
         out' = IF delta > 0 THEN <<Req("add", "Proton", delta)>>
                ELSE IF delta < 0 THEN <<Req("remove", "Proton", -delta)>>
                ELSE <<>>
    /\ pending' = HeadDone \o out'
    /\ last' = Did("created", numProtons, NaN, NaN, FALSE, {"inputPH", "slider"})
    /\ UNCHANGED <<pc, callbacks, goal, bases, acids, phase>>

\* a requested Proton is created: "Proton" post, sketch.js:117-122
StepAddProton ==
    /\ Idle
    /\ HeadIs("add", "Proton")
    /\ protons' = protons + 1
    /\ pending' = HeadDone
    /\ IF "Proton.post" \in callbacks
         THEN OnProtonCreated
         ELSE UNCHANGED <<numProtons, numAcids, view>>
    /\ out' = <<>>
    /\ last' = Did("created", numProtons, NaN, NaN, FALSE, {"inputPH", "slider"})
    /\ UNCHANGED <<pc, callbacks, goal, bases, acids, phase>>

\* a Proton is removed on request: "remove" post, sketch.js:123-128
StepRemoveProton ==
    /\ Idle
    /\ HeadIs("remove", "Proton")
    /\ protons > 0
    /\ protons' = protons - 1
    /\ pending' = HeadDone
    /\ IF "remove.post" \in callbacks
         THEN OnProtonRemoved
         ELSE UNCHANGED <<numProtons, numAcids, view>>
    /\ out' = <<>>
    /\ last' = Did("removed", numProtons, NaN, NaN, FALSE, {"inputPH", "slider"})
    /\ UNCHANGED <<pc, callbacks, goal, bases, acids, phase>>

\* a removal is requested and no free Proton is left: the rest of the request
\* has nothing to act on and no event is announced
StepRemoveNone ==
    /\ Idle
    /\ HeadIs("remove", "Proton")
    /\ protons = 0
    /\ pending' = Tail(pending)
    /\ out' = <<>>
    /\ last' = Did("none", numProtons, NaN, NaN, FALSE, {})
    /\ UNCHANGED <<pc, numProtons, numAcids, view, callbacks, goal, beakerState>>

\* a free conjugate base binds a free proton: the proton leaves the container
\* ("remove" post, sketch.js:123-128) and the base is now an acid
StepReact ==
    /\ Idle
    /\ protons > 0
    /\ acids < bases
    /\ protons' = protons - 1
    /\ acids' = acids + 1
    /\ phase' = "reacted"
    /\ IF "remove.post" \in callbacks
         THEN OnProtonRemoved
         ELSE UNCHANGED <<numProtons, numAcids, view>>
    /\ out' = <<>>
    /\ last' = Did("removed", numProtons, NaN, NaN, FALSE, {"inputPH", "slider"})
    /\ UNCHANGED <<pc, callbacks, goal, pending, bases>>

\* "reacts_with_proton" post, sketch.js:137-142
StepReactPost ==
    /\ pc = "running"
    /\ phase = "reacted"
    /\ phase' = "idle"
    /\ IF "reacts_with_proton.post" \in callbacks
         THEN OnReactsWithProton
         ELSE UNCHANGED <<numProtons, numAcids, view>>
    /\ out' = <<>>
    /\ last' = Did("reacts_with_proton", numProtons, NaN, NaN, FALSE,
                   {"inputPH", "pNumAcids", "pNumConjugateBases"})
    /\ UNCHANGED <<pc, callbacks, goal, pending, protons, bases, acids>>

\* "release_proton" pre, sketch.js:130-136: an acid is about to release
StepReleasePre ==
    /\ Idle
    /\ acids > 0
    /\ phase' = "releasing"
    /\ IF "release_proton.pre" \in callbacks
         THEN OnReleaseProton
         ELSE UNCHANGED <<numProtons, numAcids, view>>
    /\ out' = <<>>
    /\ last' = Did("release_proton", numProtons, NaN, NaN, FALSE,
                   {"inputPH", "pNumAcids", "pNumConjugateBases"})
    /\ UNCHANGED <<pc, callbacks, goal, pending, protons, bases, acids>>

\* the release itself: the acid is a base again and its proton is a new free
\* Proton ("Proton" post, sketch.js:117-122)
StepRelease ==
    /\ pc = "running"
    /\ phase = "releasing"
    /\ phase' = "idle"
    /\ acids' = acids - 1
    /\ protons' = protons + 1
    /\ IF "Proton.post" \in callbacks
         THEN OnProtonCreated
         ELSE UNCHANGED <<numProtons, numAcids, view>>
    /\ out' = <<>>
    /\ last' = Did("created", numProtons, NaN, NaN, FALSE, {"inputPH", "slider"})
    /\ UNCHANGED <<pc, callbacks, goal, pending, bases>>

Perform == StepAddBase \/ StepAddProton \/ StepRemoveProton \/ StepRemoveNone

Next ==
    \/ Preload
    \/ SetupBeaker
    \/ UISetup
    \/ SetupAddBases
    \/ SetupAddProtons
    \/ EditSlider
    \/ EditPH
    \/ StepAddBase
    \/ StepAddProton
    \/ StepRemoveProton
    \/ StepRemoveNone
    \/ StepReact
    \/ StepReactPost
    \/ StepReleasePre
    \/ StepRelease

Spec == Init /\ [][Next]_vars

----------------------------------------------------------------------------
(* One edit followed to its end: the user makes a last valid edit while no *)
(* request is outstanding, makes no edit after it, no conjugate base       *)
(* reacts, and the beaker goes on performing what was requested of it.     *)

FollowSlider ==
    /\ CanEdit
    /\ pending = <<>>
    /\ goal = NaN
    /\ \E t \in SliderTexts : ~IsNaN(t) /\ inputNumProtonsEvent(t)
    /\ goal' = last'.d

FollowPH ==
    /\ CanEdit
    /\ pending = <<>>
    /\ goal = NaN
    /\ \E t \in PHTexts : ~IsNaN(t) /\ inputPHEvent(t)
    /\ goal' = last'.d

NextSettle ==
    \/ Preload
    \/ SetupBeaker
    \/ UISetup
    \/ SetupAddBases
    \/ SetupAddProtons
    \/ EditSlider
    \/ EditPH
    \/ FollowSlider
    \/ FollowPH
    \/ StepAddBase
    \/ StepAddProton
    \/ StepRemoveProton
    \/ StepRemoveNone

SpecSettle == Init /\ [][NextSettle]_vars /\ WF_vars(Perform)

----------------------------------------------------------------------------
(* Slider edits only: the user makes valid slider edits at any time, also  *)
(* while earlier requests are outstanding, no conjugate base reacts, and   *)
(* the beaker goes on performing.  goal is the value of the latest edit.   *)

TrackSlider ==
    /\ CanEdit
    /\ \E t \in SliderTexts : ~IsNaN(t) /\ inputNumProtonsEvent(t)
    /\ goal' = last'.d

NextSlider ==
    \/ Preload
    \/ SetupBeaker
    \/ UISetup
    \/ SetupAddBases
    \/ SetupAddProtons
    \/ TrackSlider
    \/ StepAddBase
    \/ StepAddProton
    \/ StepRemoveProton
    \/ StepRemoveNone

SpecSlider == Init /\ [][NextSlider]_vars /\ WF_vars(Perform)

----------------------------------------------------------------------------
(* Valid edits only: as above, with valid edits of the pH field as well.   *)

TrackPH ==
    /\ CanEdit
    /\ \E t \in PHTexts : ~IsNaN(t) /\ inputPHEvent(t)
    /\ goal' = last'.d

NextEdits ==
    \/ Preload
    \/ SetupBeaker
    \/ UISetup
    \/ SetupAddBases
    \/ SetupAddProtons
    \/ TrackSlider
    \/ TrackPH
    \/ StepAddBase
    \/ StepAddProton
    \/ StepRemoveProton
    \/ StepRemoveNone

SpecEdits == Init /\ [][NextEdits]_vars /\ WF_vars(Perform)

----------------------------------------------------------------------------
(* Properties *)

TypeOK ==
    /\ numProtons \in Int
    /\ numAcids \in Int
    /\ protons \in Nat
    /\ acids \in 0..bases

\* h hundredths is -7*(n-64)/32 rounded to two decimals: 175*(64-n)/8 is at
\* most half a hundredth away from h.
IsRounded2(h, n) == Abs(8 * h - 175 * (64 - n)) <= 4

\* the text t is the pH of n protons to two decimals
ShowsPH(t, n) == ~t.nan /\ t.e = 0 /\ IsRounded2(t.v, n)

Edited == last.h \in {"slider", "ph"}

\* C1: a call of updateNumProtons with desired count d at counter c issues
\* exactly one addParticles(Proton, d-c) and nothing else when d > c, exactly
\* one removeParticles(Proton, c-d) and nothing else when d < c, and every
\* request it issues is for a strictly positive number of particles.
C1_ReconcilerRequests ==
    (Edited /\ last.called) =>
        /\ last.d.v > last.c =>
              out = <<[op |-> "add", kind |-> "Proton", n |-> last.d.v - last.c]>>
        /\ last.d.v < last.c =>
              out = <<[op |-> "remove", kind |-> "Proton", n |-> last.c - last.d.v]>>
        /\ \A i \in DOMAIN out : out[i].n > 0

C1_Witness ==
    /\ Edited /\ last.called
    /\ last.d.v < last.c - 1
    /\ Len(out) = 1 /\ out[1].op = "remove"

\* C2: a call of updateNumProtons with the desired count equal to numProtons
\* issues no request, leaves the outstanding requests, numProtons and numAcids
\* as they were and writes no view element (the edited element keeps the text
\* the user gave it, the others keep their value); so does every later call.
C2_NoOpWhenEqual ==
    [][(Edited' /\ last'.called /\ last'.d.v = last'.c) =>
          /\ out' = <<>>
          /\ pending' = pending
          /\ numProtons' = numProtons /\ numAcids' = numAcids
          /\ last'.wrote = {}
          /\ pNumAcids' = pNumAcids /\ pNumConjugateBases' = pNumConjugateBases
          /\ IF last'.h = "slider"
               THEN slider' = last'.text /\ inputPH' = inputPH
               ELSE inputPH' = last'.text /\ slider' = slider]_vars

C2_Witness ==
    /\ Edited /\ last.called /\ last.h = "ph"
    /\ last.d.v = last.c
    /\ last.text # Num(protonsToPH(last.c))
    /\ pending # <<>>

\* C3: an edit of the slider or of the pH field whose text is no number is
\* ignored: updateNumProtons is not called, no request is issued, and the
\* counters, the outstanding requests and the lifecycle position are unchanged.
C3_InvalidEditIgnored ==
    [][(Edited' /\ IsNaN(last'.text)) =>
          /\ ~last'.called
          /\ out' = <<>>
          /\ pending' = pending
          /\ numProtons' = numProtons /\ numAcids' = numAcids
          /\ pc' = pc /\ protons' = protons]_vars

C3_Witness ==
    /\ last.h = "ph" /\ IsNaN(last.text) /\ inputPH = NaN
    /\ numProtons > 0 /\ pending # <<>>

\* C4 (as claimed): a 'proton created' event raises numProtons by exactly 1, a
\* 'proton removed' event lowers it by exactly 1, and right after the
\* subscriber the pH field shows the pH of the new numProtons to two decimals,
\* the slider shows the new numProtons, and numAcids is unchanged.
C4_Claim ==
    [][(last'.h \in {"created", "removed"}) =>
          /\ numProtons' = numProtons + (IF last'.h = "created" THEN 1 ELSE -1)
          /\ ShowsPH(inputPH', numProtons')
          /\ slider' = Num(numProtons')
          /\ numAcids' = numAcids]_vars

\* C5: numAcids stays within 0..numConjugateBases, the conjugate-base cell of
\* the table shows numConjugateBases - numAcids (so a value in
\* 0..numConjugateBases), and each 'reacts_with_proton' event raises numAcids
\* by exactly 1.
C5_AcidsInRange ==
    /\ [](/\ 0 <= numAcids /\ numAcids <= numConjugateBases
          /\ pNumConjugateBases # Absent =>
                /\ pNumConjugateBases = Num(numConjugateBases - numAcids)
                /\ pNumConjugateBases.v \in 0..numConjugateBases)
    /\ [][last'.h = "reacts_with_proton" => numAcids' = numAcids + 1]_vars

C5_Witness ==
    /\ last.h = "reacts_with_proton"
    /\ numAcids = numConjugateBases
    /\ pNumConjugateBases = Num(0)

\* C6: numProtons is never negative and equals the number of free Proton
\* particles in the container.
C6_CounterMirrorsContainer ==
    /\ numProtons >= 0
    /\ numProtons = protons

C6_Witness ==
    /\ last.h = "removed"
    /\ acids > 0
    /\ goal = NaN
    /\ numProtons = protons /\ protons > numInitialProtons

\* C7: when the pH field is edited to the very value the sketch shows for p
\* protons (p in 0..64), the desired count computed by the handler is within 1
\* of p.
C7_RoundTrip ==
    (/\ last.h = "ph"
     /\ last.c \in SliderMin..SliderMax
     /\ ShowsPH(last.text, last.c)) =>
        Abs(last.d.v - last.c) <= 1

C7_Witness ==
    /\ last.h = "ph"
    /\ last.c = 4
    /\ ShowsPH(last.text, last.c)
    /\ last.d.v = 3

\* C8: whenever the sketch writes the pH field, it shows -7*(p-64)/32 to two
\* decimals for p = numProtons; that is 0.00 for 64 protons and 14.00 for
\* none, and one more proton always shows a strictly lower pH.
C8_DisplayedPH ==
    /\ []("inputPH" \in last.wrote =>
            /\ ShowsPH(inputPH, numProtons)
            /\ numProtons = 64 => inputPH.v = 0
            /\ numProtons = 0 => inputPH.v = 1400)
    /\ [][("inputPH" \in last.wrote /\ "inputPH" \in last'.wrote
            /\ numProtons' > numProtons) => inputPH'.v < inputPH.v]_vars

C8_Witness ==
    /\ "inputPH" \in last.wrote
    /\ numProtons = 64
    /\ inputPH = Num(0)

\* C9 (as claimed): when UISetup has built the views, the slider shows 10 and
\* the pH field shows the pH of 10 protons.
C9_Claim ==
    pc = "ui" =>
        /\ slider = Num(numInitialProtons)
        /\ ShowsPH(inputPH, numInitialProtons)

\* C10 (as claimed, its final state): once everything requested by the
\* followed edit with desired count d in 0..64 has been performed, numProtons
\* is d, the slider shows d and the pH field shows the pH of d protons.
C10_Claim ==
    (/\ ~goal.nan /\ goal.v \in SliderMin..SliderMax
     /\ pending = <<>>) =>
        /\ numProtons = goal.v
        /\ slider = Num(goal.v)
        /\ ShowsPH(inputPH, goal.v)

\* C11: numProtons changes only by +1 or -1 and only in a step in which the
\* proton created/removed subscriber ran; numAcids changes only by +1 or -1
\* and only in a step in which the reacts_with_proton/release_proton
\* subscriber ran; no edit handler, lifecycle hook or other beaker step
\* changes either counter.
C11_CountersOnlyBySubscribers ==
    [][/\ numProtons' # numProtons =>
              /\ last'.h \in {"created", "removed"}
              /\ Abs(numProtons' - numProtons) = 1
       /\ numAcids' # numAcids =>
              /\ last'.h \in {"reacts_with_proton", "release_proton"}
              /\ Abs(numAcids' - numAcids) = 1
       /\ last'.h \in {"slider", "ph", "preload", "setup", "UISetup", "base", "none"} =>
              /\ numProtons' = numProtons
              /\ numAcids' = numAcids]_vars

C11_Witness ==
    /\ last.h = "slider" /\ last.called
    /\ last.d.v = last.c + 2
    /\ numProtons = last.c
    /\ numAcids > 0

\* C12: a step in which a subscriber runs issues no request and adds nothing
\* to what is outstanding; whenever a request is issued it is a single one,
\* issued by a user edit or by setup, and it is exactly what is added to the
\* outstanding requests.
C12_NoFeedback ==
    [][/\ last'.h \in {"created", "removed", "reacts_with_proton", "release_proton"} =>
              /\ out' = <<>>
              /\ Len(pending') <= Len(pending)
       /\ (out' # <<>> \/ Len(pending') > Len(pending)) =>
              /\ last'.h \in {"slider", "ph", "setup"}
              /\ Len(out') = 1
              /\ pending' = pending \o out']_vars

C12_Witness ==
    /\ last.h = "created"
    /\ "inputPH" \in last.wrote /\ "slider" \in last.wrote
    /\ numProtons = 4 /\ inputPH = Num(1313)
    /\ out = <<>> /\ pending = <<>>

\* C13: the hooks run in the order preload, setup, frames; within setup the
\* four subscribers are registered before any particle is requested, the
\* ConjugateBase request is issued before the Proton request, and the beaker
\* steps only after setup has finished; so, with no reaction, numProtons
\* reaches 10 when the initial request has been performed.
C13_LifecycleOrder ==
    /\ [](/\ (pending # <<>> \/ bases > 0 \/ protons > 0) => callbacks = AllCallbacks
          /\ pc = "bases" =>
                pending = <<[op |-> "add", kind |-> "ConjugateBase", n |-> numConjugateBases]>>
          /\ (\E i \in DOMAIN pending : pending[i].kind = "ConjugateBase" /\ pc = "running") =>
                /\ pending[1].kind = "ConjugateBase"
                /\ Len(pending) >= 2
                /\ pending[2] = [op |-> "add", kind |-> "Proton", n |-> numInitialProtons]
          /\ pc # "running" => (bases = 0 /\ protons = 0 /\ numProtons = 0))
    /\ [][/\ pc' # pc =>
                <<pc, pc'>> \in {<<"loaded", "preloaded">>, <<"preloaded", "beaker">>,
                                 <<"beaker", "ui">>, <<"ui", "bases">>,
                                 <<"bases", "running">>}
          /\ last'.h \in {"base", "created", "removed", "none"} => pc = "running"]_vars
    /\ (pc = "running" /\ bases = 0 /\ protons = 0)
          ~> (numProtons = numInitialProtons /\ protons = numInitialProtons
                /\ bases = numConjugateBases)

C13_Witness ==
    /\ pc = "running"
    /\ last.h = "created" /\ last.c = numInitialProtons - 1
    /\ numProtons = numInitialProtons
    /\ bases = numConjugateBases
    /\ pending = <<>>

\* C14: the numAcids decrement of a release happens before the beaker turns
\* the acid back into a base, and the numAcids increment of a binding happens
\* after the beaker has made the base an acid: while a release is under way
\* numAcids is one less than the number of acids in the beaker, after a
\* binding it is never ahead of it, and between reactions the two agree.
C14_HookOrder ==
    /\ [](/\ numAcids <= acids
          /\ phase = "releasing" => numAcids = acids - 1
          /\ phase = "reacted" => numAcids = acids - 1
          /\ phase = "idle" => numAcids = acids)
    /\ [][/\ last'.h = "release_proton" =>
                (numAcids' = numAcids - 1 /\ acids' = acids /\ phase' = "releasing")
          /\ acids' = acids - 1 =>
                (phase = "releasing" /\ numAcids' = numAcids /\ numAcids = acids')
          /\ acids' = acids + 1 =>
                (numAcids' = numAcids /\ phase' = "reacted")
          /\ last'.h = "reacts_with_proton" =>
                (phase = "reacted" /\ acids' = acids /\ numAcids' = acids)]_vars

C14_Witness ==
    /\ phase = "releasing"
    /\ last.h = "release_proton"
    /\ acids = 3 /\ numAcids = 2

C15_WitnessBelow ==
    /\ last.h = "ph" /\ last.called
    /\ PHValue(last.text) <= -2187500
    /\ last.d.v = 65 /\ last.c = 64
    /\ out = <<[op |-> "add", kind |-> "Proton", n |-> 1]>>

\* C16 (as claimed): for every numeric pH entry the desired count handed to
\* updateNumProtons is x = (32/-7)*pH+64 truncated toward zero: the floor of x
\* when x >= 0 (pH <= 14), and the floor plus one when x is negative and no
\* integer.
C16_Claim ==
    (last.h = "ph" /\ last.called) =>
        LET num == 560000000 - 4 * PHValue(last.text)
            den == 8750000
            d   == last.d.v
        IN  \E f \in (d - 1)..d :
              /\ f * den <= num /\ num < (f + 1) * den      \* f is the floor of x
              /\ d = IF num >= 0 \/ num = f * den THEN f ELSE f + 1

\* C17 (as claimed): with valid slider edits only and no reaction, whenever
\* the beaker has performed everything requested of it, numProtons is the
\* value of the latest edit.
C17_Claim ==
    (~goal.nan /\ pending = <<>>) => numProtons = goal.v

\* C18 (as claimed): with valid edits only, in every state after setup in
\* which no request is outstanding, the pH field shows the pH of numProtons
\* to two decimals and the slider shows numProtons.
C18_Claim ==
    (pc = "running" /\ pending = <<>>) =>
        /\ ShowsPH(inputPH, numProtons)
        /\ slider = Num(numProtons)

====
